---------------------------- MODULE Spec2Model ----------------------------
(***************************************************************************)
(* Model of the Dominion Energy API client                                 *)
(* (custom_components/dominion_energy/api.py).                             *)
(*                                                                         *)
(* The client is a state machine over its fields (_session, _own_session,  *)
(* _token).  Every coroutine of the client is cut at its network           *)
(* suspension points: a Call action runs the code up to the first HTTP     *)
(* request, a Resp action consumes one HTTP outcome (a response, or an     *)
(* aiohttp.ClientError) and runs the code up to the next request or to the *)
(* end of the coroutine.  HTTP outcomes are inputs, drawn from small sets. *)
(*                                                                         *)
(* Strings whose content the code inspects (tokens) are sequences of       *)
(* one-character strings; opaque strings are TLA+ strings.                 *)
(***************************************************************************)
EXTENDS Integers, Sequences, FiniteSets, TLC

VARIABLES
    session,      \* self._session: None or a session handle
    own_session,  \* self._own_session
    token,        \* self._token: None or a string
    created,      \* number of aiohttp.ClientSession() objects the client made
    closed,       \* the session handles on which close() has been called
    tasks,        \* per caller: the coroutine in flight and its position
    ev            \* what the last step did (the result of a finished call)

vars == <<session, own_session, token, created, closed, tasks, ev>>

-----------------------------------------------------------------------------
(* Bounds of the model *)

\* longest token string the provider returns or the caller injects
MaxTokLen == 2
\* most sessions a client creates in one behaviour
MaxSessions == 3

-----------------------------------------------------------------------------
(* Values *)

\* Python's None, as a value of the sequence-typed fields
None == <<"<None>">>
\* Python's None, as a value of the string-typed arguments
NoneStr == "<None>"

\* the callers of the client
Tasks == {"t1"}

Alphabet == {"a"}

RECURSIVE StringsUpTo(_)
StringsUpTo(n) ==
    IF n = 0 THEN {<<>>}
    ELSE LET shorter == StringsUpTo(n - 1)
         IN  shorter \cup {Append(s, c) : s \in shorter, c \in Alphabet}

\* the strings a provider answers as access_token / sessionToken
TokStrings == StringsUpTo(MaxTokLen)

BearerPrefix == <<"B", "e", "a", "r", "e", "r", " ">>

\* str.startswith
StartsWith(s, p) == Len(s) >= Len(p) /\ SubSeq(s, 1, Len(p)) = p

\* f"Bearer {x}"
WithBearer(x) == BearerPrefix \o x

\* strings that look like the prefix but are not it
NearMiss == { <<"B", "e", "a", "r", "e", "r">>,
              <<"b", "e", "a", "r", "e", "r", " ", "a">>,
              <<"B", "e", "a", "r", "e", "r", "a">> }

\* the arguments callers pass to set_token
SetTokenArgs == TokStrings \cup NearMiss \cup {WithBearer(x) : x \in TokStrings}

\* Python truthiness of an optional string
Truthy(s) == s # None /\ s # <<>>


-----------------------------------------------------------------------------
(* HTTP: requests the client issues and the outcomes it can get back *)

LOGIN_URL == "https://login.dominionenergy.com/CommonLogin"
TOKEN_URL == "https://login.dominionenergy.com/oauth2/token"
LOGIN_SUBMIT_URL == "https://login.dominionenergy.com/api/v1/authn"
BILL_FORECAST_ENDPOINT == "/bill/billForecast"
USAGE_HISTORY_ENDPOINT == "/usage/usageHistory"
BILL_HISTORY_ENDPOINT == "/bill/billHistory"
ACTION_CODE == "4"

Endpoints == {BILL_FORECAST_ENDPOINT, USAGE_HISTORY_ENDPOINT, BILL_HISTORY_ENDPOINT}

\* self._account_number, fixed at construction
AccountNumber == "acct-1"

\* a dict with no entries (also the query of a request that sends none)
EmptyMap == [k \in {} |-> ""]

\* one HTTP request: method, url, query parameters, Authorization header
Request(method, url, params, auth) ==
    [method |-> method, url |-> url, params |-> params, auth |-> auth]

HttpOk == 200
HttpUnauthorized == 401
\* the statuses a server answers: success, rejected token, another failure
Statuses == {HttpOk, HttpUnauthorized, 500}

\* status.code as JSON delivers it: absent, a number (n), or a string (s)
NoCode == [t |-> "none", n |-> 0, s |-> <<>>]
IntCode(n) == [t |-> "int", n |-> n, s |-> <<>>]
StrCode(s) == [t |-> "str", n |-> 0, s |-> s]

\* A JSON number member of a dict: the key is absent, its value is null, or
\* it is a number.  Quantities and amounts are counted in hundredths
\* (75.00 is 7500, 12.5 kWh is 1250).
Absent == [t |-> "absent", n |-> 0]
Null == [t |-> "null", n |-> 0]
Num(n) == [t |-> "num", n |-> n]

\* a JSON string member: absent, null, or a sequence of characters
AbsentStr == [t |-> "absent", s |-> <<>>]
NullStr == [t |-> "null", s |-> <<>>]
Str(s) == [t |-> "str", s |-> s]

\* a JSON list member: absent, or a list
AbsentList == [t |-> "absent", l |-> <<>>]
List(l) == [t |-> "list", l |-> l]

\* one entry of data.bills
Bill(amount, usage) == [totalAmount |-> amount, totalUsageKwh |-> usage]

\* the `data` member of a response: the keys get_all_data reads; an
\* endpoint's answer holds its own keys, the others are absent
NoData ==
    [currentUsageKwh |-> Absent, currentBillAmount |-> Absent,
     projectedBillAmount |-> Absent,
     billingPeriodStartDate |-> AbsentStr, billingPeriodEndDate |-> AbsentStr,
     netMeteringExportKwh |-> Absent, gridReturnKwh |-> Absent,
     dailyUsage |-> AbsentList, dailyReturn |-> AbsentList,
     bills |-> AbsentList]

\* a response body that is not read
NoBody == [code |-> NoCode, message |-> NoneStr, data |-> NoData]

\* An HTTP outcome: kind "resp" with the status, the token field of the JSON
\* body (access_token / sessionToken) and the envelope of a data endpoint; or
\* kind "error", the request raised aiohttp.ClientError.
Outcome(kind, status, field, body) ==
    [kind |-> kind, status |-> status, field |-> field, body |-> body]

Response(status, field, body) == Outcome("resp", status, field, body)

TransportError == Outcome("error", 0, None, NoBody)

\* outcomes of the login-page GET
LoginOutcomes == {TransportError} \cup {Response(s, None, NoBody) : s \in Statuses}

\* outcomes of a token POST: the JSON field (access_token / sessionToken) is
\* absent or a string; only a 200 response is parsed
GrantOutcomes ==
    {TransportError}
    \cup {Response(s, None, NoBody) : s \in Statuses \ {HttpOk}}
    \cup {Response(HttpOk, f, NoBody) : f \in TokStrings \cup {None}}

-----------------------------------------------------------------------------
(* What a coroutine does between two suspension points: it returns, raises,
   or issues its next request.  Each carries the value self._token has
   afterwards and whether _get_session() was called. *)

\* what a call returns: None, True, or the JSON of a data endpoint
RetNone == [kind |-> "None", body |-> NoBody]
RetTrue == [kind |-> "True", body |-> NoBody]
RetJson(body) == [kind |-> "json", body |-> body]

Return(tok, ret) ==
    [kind |-> "return", token |-> tok, getsess |-> FALSE, cls |-> "ok",
     text |-> <<>>, ret |-> ret]

Raise(tok, cls, text) ==
    [kind |-> "raise", token |-> tok, getsess |-> FALSE, cls |-> cls,
     text |-> text, ret |-> RetNone]

Issue(tok, pc, req) ==
    [kind |-> "request", token |-> tok, getsess |-> FALSE, pc |-> pc, req |-> req]

WithSession(step) == [step EXCEPT !.getsess = TRUE]

\* DominionEnergyAuthError is a subclass of DominionEnergyApiError
IsApiError(cls) == cls \in {"DominionEnergyApiError", "DominionEnergyAuthError"}
IsAuthError(cls) == cls = "DominionEnergyAuthError"

-----------------------------------------------------------------------------
(* Session handling *)

ExternalSession == <<"ext">>
OwnSession(n) == <<"own", n>>

\* _get_session: the fields after the call
get_session ==
    IF session = None
    THEN [session |-> OwnSession(created + 1), own_session |-> TRUE,
          created |-> created + 1]
    ELSE [session |-> session, own_session |-> own_session, created |-> created]

\* close, up to its await: whether it closes the held session
close_closes == own_session /\ session # None

-----------------------------------------------------------------------------
(* authenticate *)

LoginRequest == Request("GET", LOGIN_URL, [SelectedAppName |-> "Electric"], None)
TokenRequest == Request("POST", TOKEN_URL, EmptyMap, None)
AuthnRequest == Request("POST", LOGIN_SUBMIT_URL, EmptyMap, None)

NetworkAuthError(tok) ==
    Raise(tok, "DominionEnergyAuthError", <<"Network error during authentication">>)

\* up to the login-page GET
authenticate_start(tok) == WithSession(Issue(tok, "auth_login", LoginRequest))

\* from the login-page outcome to the password-grant POST
authenticate_after_login(tok, r) ==
    IF r.kind = "error" THEN NetworkAuthError(tok)
    ELSE IF r.status # HttpOk
    THEN Raise(tok, "DominionEnergyAuthError", <<"Failed to access login page">>)
    ELSE Issue(tok, "auth_token", TokenRequest)

\* password grant, continuing to the POST when access_token is missing
authenticate_no_early_return(tok, r) ==
    IF r.kind = "error" THEN NetworkAuthError(tok)
    ELSE IF r.status = HttpOk
    THEN Issue(r.field, "auth_authn", AuthnRequest)
    ELSE Issue(tok, "auth_authn", AuthnRequest)

\* from the password-grant outcome to success or the session-token POST
authenticate_after_token(tok, r) ==
    IF r.kind = "error" THEN NetworkAuthError(tok)
    ELSE IF r.status = HttpOk
    THEN IF Truthy(r.field)
         THEN Return(r.field, RetTrue)
         ELSE Issue(r.field, "auth_authn", AuthnRequest)
    ELSE Issue(tok, "auth_authn", AuthnRequest)

\* session-token login that lets a transport failure through unwrapped
authenticate_authn_unwrapped(tok, r) ==
    IF r.kind = "error" THEN Raise(tok, "aiohttp.ClientError", <<>>)
    ELSE IF r.status = HttpOk /\ Truthy(r.field)
    THEN Return(WithBearer(r.field), RetTrue)
    ELSE Raise(tok, "DominionEnergyAuthError", <<"Failed to authenticate - please check your credentials">>)

\* from the session-token outcome to success or failure
authenticate_after_authn(tok, r) ==
    IF r.kind = "error" THEN NetworkAuthError(tok)
    ELSE IF r.status = HttpOk /\ Truthy(r.field)
    THEN Return(WithBearer(r.field), RetTrue)
    ELSE Raise(tok, "DominionEnergyAuthError", <<"Failed to authenticate - please check your credentials">>)

-----------------------------------------------------------------------------
(* set_token *)

\* set_token that always adds the prefix
set_token_always_prefix(x) == WithBearer(x)

\* the token set_token stores
set_token(x) == IF ~StartsWith(x, BearerPrefix) THEN WithBearer(x) ELSE x

-----------------------------------------------------------------------------
(* _get_headers *)

\* the Authorization header (None: the header is not sent)
get_headers_authorization(tok) == IF Truthy(tok) THEN tok ELSE None

-----------------------------------------------------------------------------
(* The response envelope of a data endpoint: {status: {code, message}, data} *)

Digits == <<"0", "1", "2", "3", "4", "5", "6", "7", "8", "9">>
DigitValue(c) == (CHOOSE i \in 1..Len(Digits) : Digits[i] = c) - 1

RECURSIVE ParseNat(_)
ParseNat(s) ==
    IF s = <<>> THEN 0
    ELSE ParseNat(SubSeq(s, 1, Len(s) - 1)) * 10 + DigitValue(s[Len(s)])

\* int(x) of a decimal string with an optional sign
ParseInt(s) == IF s[1] = "-" THEN 0 - ParseNat(Tail(s)) ELSE ParseNat(s)

\* int(status_code)
IntOf(code) == IF code.t = "int" THEN code.n ELSE ParseInt(code.s)

\* Python truthiness of status_code
CodeTruthy(code) ==
    CASE code.t = "none" -> FALSE
      [] code.t = "int"  -> code.n # 0
      [] code.t = "str"  -> code.s # <<>>

CodeValues ==
    {NoCode}
    \cup {IntCode(n) : n \in {-1, 0, 200, 500}}
    \cup {StrCode(s) : s \in {<<"2", "0", "0">>, <<"0">>, <<"5", "0", "0">>, <<"-", "1">>}}

\* status.message: absent or a text
Messages == {NoneStr, "quota exceeded"}

\* the data member of the envelope
Payloads ==
    {[NoData EXCEPT !.currentUsageKwh = Num(50000),
                    !.currentBillAmount = Num(7500)]}

Envelopes == [code : CodeValues, message : Messages, data : Payloads]

\* outcomes of a data GET; only a 200 response is parsed
DataOutcomes ==
    {TransportError}
    \cup {Response(s, None, NoBody) : s \in Statuses \ {HttpOk}}
    \cup {Response(HttpOk, None, b) : b \in Envelopes}

-----------------------------------------------------------------------------
(* _api_request *)

ParamKeys == {"accountNumber", "actionCode", "startDate"}
ParamValues == {"other"}

\* the dicts a caller can pass as params (None behaves as the empty dict)
ParamMaps == UNION {[ks -> ParamValues] : ks \in SUBSET ParamKeys}

default_params == [accountNumber |-> AccountNumber, actionCode |-> ACTION_CODE]

\* dict.update
DictUpdate(d, u) ==
    [k \in DOMAIN d \cup DOMAIN u |-> IF k \in DOMAIN u THEN u[k] ELSE d[k]]

\* the query parameters _api_request sends
merge_params(params) ==
    IF DOMAIN params # {} THEN DictUpdate(default_params, params) ELSE default_params

NotAuthenticated(tok) ==
    Raise(tok, "DominionEnergyApiError",
          <<"Not authenticated - call authenticate() first">>)

\* _api_request that takes its session before it looks at the token
api_request_session_first(tok, endpoint, params) ==
    IF ~Truthy(tok) THEN WithSession(NotAuthenticated(tok))
    ELSE WithSession(Issue(tok, "api_request",
             Request("GET", endpoint, merge_params(params),
                     get_headers_authorization(tok))))

\* up to the GET
api_request_start(tok, endpoint, params) ==
    IF ~Truthy(tok) THEN NotAuthenticated(tok)
    ELSE WithSession(Issue(tok, "api_request",
             Request("GET", endpoint, merge_params(params),
                     get_headers_authorization(tok))))

EmbeddedMessage(body) ==
    IF body.message = NoneStr THEN "Unknown error" ELSE body.message

\* _api_request that tests `status != 200` before `status == 401`
api_request_after_401_generic(tok, r) ==
    IF r.kind = "error"
    THEN Raise(tok, "DominionEnergyApiError", <<"Network error">>)
    ELSE IF r.status # HttpOk
    THEN Raise(tok, "DominionEnergyApiError", <<"API request failed with status">>)
    ELSE IF CodeTruthy(r.body.code) /\ IntOf(r.body.code) # HttpOk
    THEN Raise(tok, "DominionEnergyApiError",
               <<"API error: ", EmbeddedMessage(r.body)>>)
    ELSE Return(tok, RetJson(r.body))

\* _api_request that drops the token when the server rejects it
api_request_after_clears_token(tok, r) ==
    IF r.kind = "error"
    THEN Raise(tok, "DominionEnergyApiError", <<"Network error">>)
    ELSE IF r.status = HttpUnauthorized
    THEN Raise(None, "DominionEnergyAuthError", <<"Token expired or invalid">>)
    ELSE IF r.status # HttpOk
    THEN Raise(tok, "DominionEnergyApiError", <<"API request failed with status">>)
    ELSE IF CodeTruthy(r.body.code) /\ IntOf(r.body.code) # HttpOk
    THEN Raise(tok, "DominionEnergyApiError",
               <<"API error: ", EmbeddedMessage(r.body)>>)
    ELSE Return(tok, RetJson(r.body))

\* from the outcome of the GET to the end of _api_request
api_request_after(tok, r) ==
    IF r.kind = "error"
    THEN Raise(tok, "DominionEnergyApiError", <<"Network error">>)
    ELSE IF r.status = HttpUnauthorized
    THEN Raise(tok, "DominionEnergyAuthError", <<"Token expired or invalid">>)
    ELSE IF r.status # HttpOk
    THEN Raise(tok, "DominionEnergyApiError", <<"API request failed with status">>)
    ELSE IF CodeTruthy(r.body.code) /\ IntOf(r.body.code) # HttpOk
    THEN Raise(tok, "DominionEnergyApiError",
               <<"API error: ", EmbeddedMessage(r.body)>>)
    ELSE Return(tok, RetJson(r.body))

\* the arguments callers pass as start_date / end_date
DateArgs == {NoneStr, "", "2024-01-01"}
StrTruthy(x) == x # NoneStr /\ x # ""

\* the params dict get_usage_history builds
usage_history_params(start_date, end_date) ==
    LET ks == (IF StrTruthy(start_date) THEN {"startDate"} ELSE {})
              \cup (IF StrTruthy(end_date) THEN {"endDate"} ELSE {})
    IN  [k \in ks |-> IF k = "startDate" THEN start_date ELSE end_date]

-----------------------------------------------------------------------------
(* DominionEnergyData, and what get_all_data does with the JSON of each
   endpoint.  The members of `data` have the JSON types the code expects
   (numbers, strings, lists of dicts); a member of another type is outside
   the model. *)

\* dict.get(key): None when the key is absent
Get(v) == IF v.t = "absent" THEN Null ELSE v
GetStr(v) == IF v.t = "absent" THEN NullStr ELSE v
\* dict.get(key, default): the default only when the key is absent
GetOr(v, d) == IF v.t = "absent" THEN d ELSE v

\* Python truthiness of an optional number, string, list
NumTruthy(v) == v.t = "num" /\ v.n # 0
JsonStrTruthy(v) == v.t = "str" /\ v.s # <<>>
ListTruthy(v) == v.t = "list" /\ v.l # <<>>
\* ... and of a dict: it has a key
BillTruthy(b) == b.totalAmount.t # "absent" \/ b.totalUsageKwh.t # "absent"

\* round(num / den, k) as a count of 10^-k, for den > 0: the nearest
\* integer to num / den, a tie going to the even one
RoundDiv(num, den) ==
    LET q == num \div den
        r == num % den
    IN  IF 2 * r > den \/ (2 * r = den /\ q % 2 = 1) THEN q + 1 ELSE q

\* round(amount / usage, 4), counted in ten-thousandths; amount and usage are
\* counted in hundredths
Rate(amount, usage) == Num(RoundDiv(amount.n * 10000, usage.n))

\* a datetime: the day (proleptic Gregorian ordinal), the second of the day,
\* and whether it carries a UTC offset; NoDate is None
NoDate == [t |-> "none", day |-> 0, sec |-> 0, aware |-> FALSE]
DateTime(day, sec, aware) == [t |-> "dt", day |-> day, sec |-> sec, aware |-> aware]

NoList == [t |-> "null", l |-> <<>>]

\* DominionEnergyData(): every field None.  current_rate counts
\* ten-thousandths, the other numbers hundredths.
DominionEnergyData ==
    [grid_consumption |-> Null, grid_return |-> Null, monthly_usage |-> Null,
     current_bill |-> Null,
     billing_period_start |-> NoDate, billing_period_end |-> NoDate,
     current_rate |-> Null, daily_cost |-> Null,
     daily_usage |-> NoList, daily_return |-> NoList]

\* str.replace("Z", "+00:00")
RECURSIVE ReplaceZ(_)
ReplaceZ(s) ==
    IF s = <<>> THEN <<>>
    ELSE (IF Head(s) = "Z" THEN <<"+", "0", "0", ":", "0", "0">> ELSE <<Head(s)>>)
         \o ReplaceZ(Tail(s))

\* days of month m of year y
DaysInMonth(y, m) ==
    IF m = 2
    THEN (IF (y % 4 = 0 /\ y % 100 # 0) \/ y % 400 = 0 THEN 29 ELSE 28)
    ELSE IF m \in {4, 6, 9, 11} THEN 30 ELSE 31

\* date.toordinal
Ordinal(y, m, d) ==
    LET before == <<0, 31, 59, 90, 120, 151, 181, 212, 243, 273, 304, 334>>[m]
                  + (IF m > 2 /\ DaysInMonth(y, 2) = 29 THEN 1 ELSE 0)
    IN  365 * (y - 1) + ((y - 1) \div 4) - ((y - 1) \div 100)
        + ((y - 1) \div 400) + before + d

\* datetime.fromisoformat on the forms YYYY-MM-DD, YYYY-MM-DDTHH:MM:SS and
\* YYYY-MM-DDTHH:MM:SS+HH:MM; NoDate stands for ValueError.  (Strings with
\* fractional seconds or a shortened time are not among the inputs.)
fromisoformat(s) ==
    LET digits(i, j) == \A k \in i..j : \E n \in 1..Len(Digits) : Digits[n] = s[k]
        field(i, j) == ParseNat(SubSeq(s, i, j))
        date_ok ==
            /\ Len(s) >= 10
            /\ digits(1, 4) /\ s[5] = "-" /\ digits(6, 7) /\ s[8] = "-"
            /\ digits(9, 10)
            /\ field(1, 4) >= 1
            /\ field(6, 7) \in 1..12
            /\ field(9, 10) \in 1..DaysInMonth(field(1, 4), field(6, 7))
        time_ok ==
            /\ Len(s) >= 19
            /\ digits(12, 13) /\ s[14] = ":" /\ digits(15, 16) /\ s[17] = ":"
            /\ digits(18, 19)
            /\ field(12, 13) < 24 /\ field(15, 16) < 60 /\ field(18, 19) < 60
        offset_ok ==
            /\ Len(s) = 25
            /\ s[20] \in {"+", "-"}
            /\ digits(21, 22) /\ s[23] = ":" /\ digits(24, 25)
            /\ field(21, 22) < 24 /\ field(24, 25) < 60
        day == Ordinal(field(1, 4), field(6, 7), field(9, 10))
        sec == field(12, 13) * 3600 + field(15, 16) * 60 + field(18, 19)
    IN  IF ~date_ok THEN NoDate
        ELSE IF Len(s) = 10 THEN DateTime(day, 0, FALSE)
        ELSE IF ~time_ok THEN NoDate
        ELSE IF Len(s) = 19 THEN DateTime(day, sec, FALSE)
        ELSE IF offset_ok THEN DateTime(day, sec, TRUE)
        ELSE NoDate

\* the datetime a billing-period member gives: parsed when the string is
\* truthy and well formed, else the field keeps its value
billing_date(old, v) ==
    IF JsonStrTruthy(v) /\ fromisoformat(ReplaceZ(v.s)).t = "dt"
    THEN fromisoformat(ReplaceZ(v.s))
    ELSE old

\* (now - start.replace(tzinfo=None)).days, for a naive `now`
days_elapsed(now, start) ==
    (now.day - start.day) + (IF now.sec < start.sec THEN -1 ELSE 0)

\* the first try when a malformed billing date ends it: the fields set
\* before the dates are parsed, and no others
get_all_data_forecast_date_aborts(data, forecast_data, now) ==
    LET monthly_usage == Get(forecast_data.currentUsageKwh)
        bill == Get(forecast_data.currentBillAmount)
    IN  [data EXCEPT !.monthly_usage = monthly_usage,
                     !.grid_consumption = monthly_usage,
                     !.current_bill = IF bill.t = "null"
                                      THEN Get(forecast_data.projectedBillAmount)
                                      ELSE bill]

\* get_all_data, the body of the first try: `data` after the bill forecast
\* answered with forecast_data, at time `now`
get_all_data_forecast(data, forecast_data, now) ==
    LET monthly_usage == Get(forecast_data.currentUsageKwh)
        bill == Get(forecast_data.currentBillAmount)
        current_bill == IF bill.t = "null"
                        THEN Get(forecast_data.projectedBillAmount) ELSE bill
        billing_period_start ==
            billing_date(data.billing_period_start,
                         GetStr(forecast_data.billingPeriodStartDate))
        billing_period_end ==
            billing_date(data.billing_period_end,
                         GetStr(forecast_data.billingPeriodEndDate))
        current_rate ==
            IF NumTruthy(current_bill) /\ NumTruthy(monthly_usage)
               /\ monthly_usage.n > 0
            THEN Rate(current_bill, monthly_usage)
            ELSE data.current_rate
        daily_cost ==
            IF billing_period_start.t = "dt" /\ NumTruthy(current_bill)
               /\ days_elapsed(now, billing_period_start) > 0
            THEN Num(RoundDiv(current_bill.n,
                              days_elapsed(now, billing_period_start)))
            ELSE data.daily_cost
        net == GetOr(forecast_data.netMeteringExportKwh, Num(0))
        grid_return == IF net.t = "null"
                       THEN GetOr(forecast_data.gridReturnKwh, Num(0)) ELSE net
    IN  [data EXCEPT !.monthly_usage = monthly_usage,
                     !.grid_consumption = monthly_usage,
                     !.current_bill = current_bill,
                     !.billing_period_start = billing_period_start,
                     !.billing_period_end = billing_period_end,
                     !.current_rate = current_rate,
                     !.daily_cost = daily_cost,
                     !.grid_return = grid_return]

\* the body of the second try: `data` after the usage history answered
get_all_data_usage(data, history_data) ==
    LET daily_usage == GetOr(history_data.dailyUsage, List(<<>>))
        daily_return == GetOr(history_data.dailyReturn, List(<<>>))
    IN  [data EXCEPT
            !.daily_usage = IF ListTruthy(daily_usage) THEN daily_usage ELSE @,
            !.daily_return = IF ListTruthy(daily_return) THEN daily_return ELSE @]

\* the body of the third try: `data` after the bill history answered
get_all_data_bills(data, bills_data) ==
    LET bills == GetOr(bills_data.bills, List(<<>>))
        latest_bill == bills.l[1]
        bill_amount == Get(latest_bill.totalAmount)
        bill_usage == Get(latest_bill.totalUsageKwh)
    IN  IF /\ ListTruthy(bills)
           /\ BillTruthy(latest_bill) /\ ~NumTruthy(data.current_rate)
           /\ NumTruthy(bill_amount) /\ NumTruthy(bill_usage) /\ bill_usage.n > 0
        THEN [data EXCEPT !.current_rate = Rate(bill_amount, bill_usage)]
        ELSE data

-----------------------------------------------------------------------------
(* The state machine *)

Pending == Outcome("pending", 0, None, NoBody)

\* the fields a call observes when it starts
Snapshot == [token |-> token, session |-> session, own_session |-> own_session,
             created |-> created]

NoSnapshot == [token |-> None, session |-> None, own_session |-> FALSE,
               created |-> 0]

\* the arguments of a call
Args(tok, endpoint, params, start_date, end_date) ==
    [token |-> tok, endpoint |-> endpoint, params |-> params,
     start_date |-> start_date, end_date |-> end_date]

NoArgs == Args(None, NoneStr, EmptyMap, NoneStr, NoneStr)

\* a caller with no coroutine in flight
IdleTask == [op |-> "idle", pc |-> "idle", arg |-> NoArgs, sess |-> None,
             log |-> <<>>, pre |-> NoSnapshot]

\* a step that does not finish a call
StepEv == [kind |-> "step"]

\* the outcome of the request in flight, written into the log
Answered(log, r) == [log EXCEPT ![Len(log)].resp = r]

AllIdle == \A t \in Tasks : tasks[t].op = "idle"

\* Operations are issued by one caller at a time: a call starts only when
\* no other is in flight.
CanCall(t) == AllIdle

\* Run one stretch of coroutine `op` of caller t: the fields change as `step`
\* says; the call either suspends on its next request or finishes.
Apply(t, op, arg, sess, log, pre, step) ==
    LET gs == IF step.getsess THEN get_session
              ELSE [session |-> session, own_session |-> own_session,
                    created |-> created]
        on == IF step.getsess THEN gs.session ELSE sess
    IN  /\ gs.created <= MaxSessions
        /\ session' = gs.session
        /\ own_session' = gs.own_session
        /\ created' = gs.created
        /\ token' = step.token
        /\ closed' = closed
        /\ IF step.kind = "request"
           THEN /\ tasks' = [tasks EXCEPT ![t] =
                      [op |-> op, pc |-> step.pc, arg |-> arg, sess |-> on,
                       log |-> Append(log, [req |-> step.req, on |-> on,
                                            resp |-> Pending]),
                       pre |-> pre]]
                /\ ev' = StepEv
           ELSE /\ tasks' = [tasks EXCEPT ![t] = IdleTask]
                /\ ev' = [kind |-> "done", op |-> op, arg |-> arg,
                          cls |-> step.cls, text |-> step.text, ret |-> step.ret,
                          log |-> log, pre |-> pre]

\* a call starts
Call(t, op, arg, step) == Apply(t, op, arg, None, <<>>, Snapshot, step)

\* a suspended call resumes with the outcome r of its request
Resume(t, r, step) ==
    Apply(t, tasks[t].op, tasks[t].arg, tasks[t].sess,
          Answered(tasks[t].log, r), tasks[t].pre, step)

Init ==
    /\ session \in {None, ExternalSession}
    /\ own_session = FALSE
    /\ token = None
    /\ created = 0
    /\ closed = {}
    /\ tasks = [t \in Tasks |-> IdleTask]
    /\ ev = StepEv

CallAuthenticate(t) ==
    /\ CanCall(t)
    /\ Call(t, "authenticate", NoArgs, authenticate_start(token))

AuthLoginResp(t) ==
    /\ tasks[t].pc = "auth_login"
    /\ \E r \in LoginOutcomes : Resume(t, r, authenticate_after_login(token, r))

AuthTokenResp(t) ==
    /\ tasks[t].pc = "auth_token"
    /\ \E r \in GrantOutcomes : Resume(t, r, authenticate_after_token(token, r))

AuthAuthnResp(t) ==
    /\ tasks[t].pc = "auth_authn"
    /\ \E r \in GrantOutcomes : Resume(t, r, authenticate_after_authn(token, r))

SetToken(t) ==
    /\ CanCall(t)
    /\ \E x \in SetTokenArgs :
          Call(t, "set_token", [NoArgs EXCEPT !.token = x],
               Return(set_token(x), RetNone))

CallApiRequest(t) ==
    /\ CanCall(t)
    /\ \E e \in Endpoints, p \in ParamMaps :
          Call(t, "_api_request", [NoArgs EXCEPT !.endpoint = e, !.params = p],
               api_request_start(token, e, p))

CallGetBillForecast(t) ==
    /\ CanCall(t)
    /\ Call(t, "get_bill_forecast", NoArgs,
            api_request_start(token, BILL_FORECAST_ENDPOINT, EmptyMap))

CallGetUsageHistory(t) ==
    /\ CanCall(t)
    /\ \E sd \in DateArgs, ed \in DateArgs :
          Call(t, "get_usage_history",
               [NoArgs EXCEPT !.start_date = sd, !.end_date = ed],
               api_request_start(token, USAGE_HISTORY_ENDPOINT,
                                 usage_history_params(sd, ed)))

CallGetBillHistory(t) ==
    /\ CanCall(t)
    /\ Call(t, "get_bill_history", NoArgs,
            api_request_start(token, BILL_HISTORY_ENDPOINT, EmptyMap))

ApiRequestResp(t) ==
    /\ tasks[t].pc = "api_request"
    /\ \E r \in DataOutcomes : Resume(t, r, api_request_after(token, r))

\* close, up to `await self._session.close()`.  It returns at once when the
\* client holds no session of its own.  ClientSession.close() of a session
\* that is already closed does not suspend, so the assignment after the
\* await follows in the same step.
close_start(t) ==
    /\ IF close_closes /\ session \notin closed
       THEN /\ closed' = closed \cup {session}
            /\ session' = session
            /\ tasks' = [tasks EXCEPT ![t] =
                  [IdleTask EXCEPT !.op = "close", !.pc = "close_await",
                                   !.sess = session, !.pre = Snapshot]]
            /\ ev' = StepEv
       ELSE /\ closed' = closed
            /\ session' = IF close_closes THEN None ELSE session
            /\ tasks' = tasks
            /\ ev' = [kind |-> "done", op |-> "close", arg |-> NoArgs,
                      cls |-> "ok", text |-> <<>>, ret |-> RetNone, log |-> <<>>,
                      pre |-> Snapshot]
    /\ UNCHANGED <<own_session, token, created>>

CallClose(t) ==
    /\ CanCall(t)
    /\ close_start(t)

\* close, after the await: self._session = None
CloseResume(t) ==
    /\ tasks[t].pc = "close_await"
    /\ session' = None
    /\ tasks' = [tasks EXCEPT ![t] = IdleTask]
    /\ ev' = [kind |-> "done", op |-> "close", arg |-> NoArgs,
              cls |-> "ok", text |-> <<>>, ret |-> RetNone, log |-> <<>>,
              pre |-> tasks[t].pre]
    /\ UNCHANGED <<own_session, token, created, closed>>

Next ==
    \E t \in Tasks :
        \/ CallAuthenticate(t)
        \/ AuthLoginResp(t)
        \/ AuthTokenResp(t)
        \/ AuthAuthnResp(t)
        \/ SetToken(t)
        \/ CallApiRequest(t)
        \/ CallGetBillForecast(t)
        \/ CallGetUsageHistory(t)
        \/ CallGetBillHistory(t)
        \/ ApiRequestResp(t)
        \/ CallClose(t)
        \/ CloseResume(t)

Spec == Init /\ [][Next]_vars

-----------------------------------------------------------------------------
(* The client under callers that overlap: a call may start while others are
   suspended at their requests, so the steps of authenticate, of the data
   requests and of close interleave at the awaits. *)

Callers == {"t1", "t2"}

ConcInit ==
    /\ session \in {None, ExternalSession}
    /\ own_session = FALSE
    /\ token = None
    /\ created = 0
    /\ closed = {}
    /\ tasks = [t \in Callers |-> IdleTask]
    /\ ev = StepEv

StartAuthenticate(t) ==
    /\ tasks[t].op = "idle"
    /\ Call(t, "authenticate", NoArgs, authenticate_start(token))

StartGetBillForecast(t) ==
    /\ tasks[t].op = "idle"
    /\ Call(t, "get_bill_forecast", NoArgs,
            api_request_start(token, BILL_FORECAST_ENDPOINT, EmptyMap))

StartClose(t) ==
    /\ tasks[t].op = "idle"
    /\ close_start(t)

\* Under overlapping callers each request has one failing and one
\* succeeding answer.
ConcLoginResp(t) ==
    /\ tasks[t].pc = "auth_login"
    /\ \E r \in {TransportError, Response(HttpOk, None, NoBody)} :
          Resume(t, r, authenticate_after_login(token, r))

ConcTokenResp(t) ==
    /\ tasks[t].pc = "auth_token"
    /\ \E r \in {Response(HttpOk, None, NoBody), Response(HttpOk, <<"a">>, NoBody)} :
          Resume(t, r, authenticate_after_token(token, r))

ConcAuthnResp(t) ==
    /\ tasks[t].pc = "auth_authn"
    /\ \E r \in {Response(HttpOk, None, NoBody), Response(HttpOk, <<"a">>, NoBody)} :
          Resume(t, r, authenticate_after_authn(token, r))

ConcDataResp(t) ==
    /\ tasks[t].pc = "api_request"
    /\ \E r \in {TransportError, Response(HttpOk, None, NoBody)} :
          Resume(t, r, api_request_after(token, r))

ConcNext ==
    \E t \in Callers :
        \/ StartAuthenticate(t)
        \/ StartGetBillForecast(t)
        \/ StartClose(t)
        \/ ConcLoginResp(t)
        \/ ConcTokenResp(t)
        \/ ConcAuthnResp(t)
        \/ ConcDataResp(t)
        \/ CloseResume(t)

ConcSpec == ConcInit /\ [][ConcNext]_vars

-----------------------------------------------------------------------------
(* get_all_data, validate_credentials and the coordinator's
   _async_update_data: coroutines that call authenticate and the read
   operations.  Each is cut at the requests of the calls it makes. *)

\* what the composite calls return: a DominionEnergyData, or False
RetData == [kind |-> "data", body |-> NoBody]
RetFalse == [kind |-> "False", body |-> NoBody]

\* what a step of the config flow returns: async_create_entry, or
\* async_show_form with errors["base"] (NoneStr: no error)
RetEntry == [kind |-> "create_entry", body |-> NoBody]
RetForm(base) == [kind |-> "form", body |-> [NoBody EXCEPT !.message = base]]

\* a step of a coroutine whose local `data` is a DominionEnergyData
WithData(step, data) ==
    [k \in DOMAIN step \cup {"data"} |-> IF k = "data" THEN data ELSE step[k]]

\* the request of `step`, with the position to resume at
At(step, pc) == [step EXCEPT !.pc = pc]

\* `next` runs after `first` in the same stretch of code
Then(first, next) == [next EXCEPT !.getsess = first.getsess \/ next.getsess]

\* get_all_data that lets a failure of the bill history out
get_all_data_bills_aborts(data, step) ==
    IF step.kind = "return"
    THEN WithData(Return(step.token, RetData),
                  get_all_data_bills(data, step.ret.body.data))
    ELSE WithData(step, data)

\* the third try, once get_bill_history has returned or raised
get_all_data_after_bills(data, step) ==
    IF step.kind = "return"
    THEN WithData(Return(step.token, RetData),
                  get_all_data_bills(data, step.ret.body.data))
    ELSE IF IsApiError(step.cls)
    THEN WithData(Return(step.token, RetData), data)
    ELSE WithData(step, data)

\* the third try, up to its GET
get_all_data_try_bills(tok, data) ==
    LET step == api_request_start(tok, BILL_HISTORY_ENDPOINT, EmptyMap)
    IN  IF step.kind = "request" THEN WithData(At(step, "bills"), data)
        ELSE Then(step, get_all_data_after_bills(data, step))

\* get_all_data that gives up when the usage history fails
get_all_data_usage_aborts(data, step) ==
    IF step.kind = "return"
    THEN Then(step, get_all_data_try_bills(step.token,
                        get_all_data_usage(data, step.ret.body.data)))
    ELSE WithData(step, data)

\* the second try, once get_usage_history has returned or raised
get_all_data_after_usage(data, step) ==
    IF step.kind = "return"
    THEN Then(step, get_all_data_try_bills(step.token,
                        get_all_data_usage(data, step.ret.body.data)))
    ELSE IF IsApiError(step.cls)
    THEN Then(step, get_all_data_try_bills(step.token, data))
    ELSE WithData(step, data)

\* the second try, up to its GET
get_all_data_try_usage(tok, data) ==
    LET step == api_request_start(tok, USAGE_HISTORY_ENDPOINT,
                                  usage_history_params(NoneStr, NoneStr))
    IN  IF step.kind = "request" THEN WithData(At(step, "usage"), data)
        ELSE Then(step, get_all_data_after_usage(data, step))

\* the first try, once get_bill_forecast has returned or raised
get_all_data_after_forecast(data, step, now) ==
    IF step.kind = "return"
    THEN Then(step, get_all_data_try_usage(step.token,
                        get_all_data_forecast(data, step.ret.body.data, now)))
    ELSE IF IsApiError(step.cls)
    THEN Then(step, get_all_data_try_usage(step.token, data))
    ELSE WithData(step, data)

\* get_all_data up to its first GET
get_all_data_start(tok) ==
    LET step == api_request_start(tok, BILL_FORECAST_ENDPOINT, EmptyMap)
    IN  IF step.kind = "request"
        THEN WithData(At(step, "forecast"), DominionEnergyData)
        ELSE Then(step, get_all_data_after_forecast(DominionEnergyData, step, NoDate))

\* validate_credentials whose except clauses are in the other order
validate_credentials_api_first(step) ==
    IF IsApiError(step.cls) THEN Return(step.token, RetTrue)
    ELSE IF IsAuthError(step.cls) THEN Return(step.token, RetFalse)
    ELSE step

\* validate_credentials, the except clauses
validate_credentials_except(step) ==
    IF IsAuthError(step.cls) THEN Return(step.token, RetFalse)
    ELSE IF IsApiError(step.cls) THEN Return(step.token, RetTrue)
    ELSE step

\* validate_credentials while get_bill_forecast runs
validate_credentials_in_forecast(step) ==
    IF step.kind = "request" THEN At(step, "forecast")
    ELSE IF step.kind = "raise" THEN Then(step, validate_credentials_except(step))
    ELSE Return(step.token, RetTrue)

\* validate_credentials while authenticate runs
validate_credentials_in_authenticate(step) ==
    IF step.kind = "request" THEN step
    ELSE IF step.kind = "raise" THEN Then(step, validate_credentials_except(step))
    ELSE Then(step, validate_credentials_in_forecast(
                        api_request_start(step.token, BILL_FORECAST_ENDPOINT,
                                          EmptyMap)))

\* _async_update_data, the except clauses
async_update_data_except(step) ==
    IF IsAuthError(step.cls)
    THEN Raise(step.token, "ConfigEntryAuthFailed", <<"Authentication failed">>)
    ELSE IF IsApiError(step.cls)
    THEN Raise(step.token, "UpdateFailed",
               <<"Error communicating with Dominion Energy">>)
    ELSE step

\* _async_update_data while get_all_data runs
async_update_data_in_get_all_data(step) ==
    IF step.kind = "raise"
    THEN WithData(Then(step, async_update_data_except(step)), step.data)
    ELSE step

\* _async_update_data while authenticate runs
async_update_data_in_authenticate(step) ==
    IF step.kind = "request" THEN WithData(step, DominionEnergyData)
    ELSE IF step.kind = "raise"
    THEN WithData(Then(step, async_update_data_except(step)), DominionEnergyData)
    ELSE Then(step, async_update_data_in_get_all_data(get_all_data_start(step.token)))

\* _async_update_data up to its first request
async_update_data_start(tok) ==
    async_update_data_in_authenticate(authenticate_start(tok))

\* validate_input, once validate_credentials has returned or raised
validate_input_after(step) ==
    IF step.kind = "return"
    THEN IF step.ret = RetTrue THEN step
         ELSE Raise(step.token, "InvalidAuth", <<>>)
    ELSE IF IsAuthError(step.cls) THEN Raise(step.token, "InvalidAuth", <<>>)
    ELSE IF step.cls = "ClientError" THEN Raise(step.token, "CannotConnect", <<>>)
    ELSE step

\* async_step_user, once validate_input has returned or raised
async_step_user_after(step) ==
    IF step.kind = "return" THEN Return(step.token, RetEntry)
    ELSE IF step.cls = "CannotConnect"
    THEN Return(step.token, RetForm("cannot_connect"))
    ELSE IF step.cls = "InvalidAuth"
    THEN Return(step.token, RetForm("invalid_auth"))
    ELSE Return(step.token, RetForm("unknown"))

\* async_step_user while the validate_credentials of validate_input runs
async_step_user_in_validate(step) ==
    IF step.kind = "request" THEN step
    ELSE Then(step, async_step_user_after(validate_input_after(step)))

\* async_step_user up to its first request; user_input is None when the
\* form is first shown, and `configured` tells whether the account number
\* is the unique id of an existing entry
async_step_user_start(tok, user_input, configured) ==
    IF user_input = NoneStr THEN Return(tok, RetForm(NoneStr))
    ELSE IF configured THEN Raise(tok, "AbortFlow", <<"already_configured">>)
    ELSE async_step_user_in_validate(
             validate_credentials_in_authenticate(authenticate_start(tok)))

-----------------------------------------------------------------------------
(* The client under its composite operations: get_all_data,
   validate_credentials and the coordinator's update cycle, over the answers
   the three data endpoints can give *)

\* billing-period strings: an ISO-8601 instant with the Z suffix, and one
\* that is not ISO-8601
BillingStart == Str(<<"2", "0", "2", "4", "-", "0", "1", "-", "0", "1", "T", "0", "0", ":", "0", "0", ":", "0", "0", "Z">>)
BillingEnd == Str(<<"2", "0", "2", "4", "-", "0", "1", "-", "3", "1", "T", "0", "0", ":", "0", "0", ":", "0", "0", "Z">>)
Malformed == Str(<<"0", "1", "/", "0", "1", "/", "2", "0", "2", "4">>)

\* billing-period members the parser refuses (a day the month does not
\* have, and the string that is not ISO-8601), and the empty string
MalformedDates ==
    {Malformed, Str(<<>>),
     Str(<<"2", "0", "2", "4", "-", "0", "2", "-", "3", "0", "T", "0", "0", ":", "0", "0", ":", "0", "0", "Z">>)}

\* billing starts: on the day of `now`, less than a day before it, after it
StartDates ==
    {AbsentStr, BillingStart,
     Str(<<"2", "0", "2", "4", "-", "0", "1", "-", "1", "6">>),
     Str(<<"2", "0", "2", "4", "-", "0", "1", "-", "1", "5", "T", "1", "2", ":", "0", "0", ":", "0", "0", "+", "0", "0", ":", "0", "0">>),
     Str(<<"2", "0", "2", "4", "-", "0", "2", "-", "0", "1", "T", "0", "0", ":", "0", "0", ":", "0", "0", "Z">>)}
    \cup MalformedDates

\* billing ends: one of them earlier than BillingStart
EndDates ==
    {AbsentStr, BillingEnd, Malformed,
     Str(<<"2", "0", "2", "3", "-", "1", "2", "-", "1", "5", "T", "0", "0", ":", "0", "0", ":", "0", "0", "Z">>)}

\* the values datetime.now() returns
Nows == {DateTime(Ordinal(2024, 1, 16), 3600, FALSE)}

\* a forecast as the provider's documentation example gives it
TypicalForecast ==
    [NoData EXCEPT !.currentUsageKwh = Num(50000), !.currentBillAmount = Num(7500)]

\* forecast payloads: every combination of usage and bill members; of the
\* two grid-return members; of the billing-period members; of the bill
\* with a billing start
ForecastData ==
    {[NoData EXCEPT !.currentUsageKwh = u, !.currentBillAmount = b,
                    !.projectedBillAmount = p] :
        u \in {Absent, Null, Num(0), Num(50000), Num(-100)},
        b \in {Absent, Null, Num(0), Num(1), Num(7500)},
        p \in {Absent, Num(8000)}}
    \cup {[TypicalForecast EXCEPT !.netMeteringExportKwh = n, !.gridReturnKwh = g] :
        n \in {Absent, Null, Num(0), Num(300)},
        g \in {Absent, Null, Num(1250)}}
    \cup {[TypicalForecast EXCEPT !.billingPeriodStartDate = s,
                                  !.billingPeriodEndDate = e] :
        s \in StartDates, e \in EndDates}
    \cup {[TypicalForecast EXCEPT !.currentBillAmount = b,
                                  !.billingPeriodStartDate = BillingStart] :
        b \in {Absent, Null, Num(0), Num(1)}}

\* usage-history payloads
UsageData ==
    {[NoData EXCEPT !.dailyUsage = u, !.dailyReturn = r] :
        u \in {AbsentList, List(<<>>), List(<<"day-1", "day-2">>)},
        r \in {AbsentList, List(<<"ret-1">>)}}

TypicalBill == Bill(Num(10000), Num(100000))

\* bill-history payloads
BillsData ==
    {[NoData EXCEPT !.bills = l] :
        l \in {AbsentList, List(<<>>),
               List(<<TypicalBill, Bill(Num(5000), Num(10000))>>),
               List(<<Bill(Absent, Absent), TypicalBill>>)}
           \cup {List(<<Bill(a, u)>>) :
                    a \in {Absent, Num(0), Num(10000)},
                    u \in {Absent, Num(0), Num(100000), Num(-100)}}}

\* a 200 answer whose envelope reports success
Ok(d) == Response(HttpOk, None,
                  [code |-> IntCode(HttpOk), message |-> NoneStr, data |-> d])

\* the failures of a data GET: transport error, 401, another status, and an
\* embedded error status
DataFailures ==
    {TransportError, Response(HttpUnauthorized, None, NoBody),
     Response(500, None, NoBody),
     Response(HttpOk, None,
              [code |-> IntCode(500), message |-> "quota exceeded",
               data |-> NoData])}

\* The payload variety is explored under get_all_data called on its own; the
\* other operations see one payload per endpoint.
ForecastOutcomes(op) ==
    DataFailures
    \cup {Ok(d) : d \in IF op = "get_all_data" THEN ForecastData
                        ELSE {TypicalForecast}}
UsageOutcomes(op) ==
    DataFailures
    \cup {Ok(d) : d \in IF op = "get_all_data" THEN UsageData
                        ELSE {[NoData EXCEPT !.dailyUsage = List(<<"day-1">>)]}}
BillsOutcomes(op) ==
    DataFailures
    \cup {Ok(d) : d \in IF op = "get_all_data" THEN BillsData
                        ELSE {[NoData EXCEPT !.bills = List(<<TypicalBill>>)]}}

\* outcomes of a token POST: a failure, no token, an empty one, a token
TokenOutcomes ==
    {TransportError, Response(HttpUnauthorized, None, NoBody),
     Response(HttpOk, None, NoBody), Response(HttpOk, <<>>, NoBody),
     Response(HttpOk, <<"a">>, NoBody)}

\* a caller with no coroutine in flight
IdleCaller == [op |-> "idle", pc |-> "idle", sess |-> None, log |-> <<>>,
               pre |-> NoSnapshot, data |-> DominionEnergyData, now |-> NoDate]

\* Run one stretch of coroutine `op` of caller t, as Apply does, for the
\* coroutines that hold a DominionEnergyData; `now` is what datetime.now()
\* returned to it.
ApplyData(t, op, sess, log, pre, now, step) ==
    LET gs == IF step.getsess THEN get_session
              ELSE [session |-> session, own_session |-> own_session,
                    created |-> created]
        on == IF step.getsess THEN gs.session ELSE sess
    IN  /\ gs.created <= MaxSessions
        /\ session' = gs.session
        /\ own_session' = gs.own_session
        /\ created' = gs.created
        /\ token' = step.token
        /\ closed' = closed
        /\ IF step.kind = "request"
           THEN /\ tasks' = [tasks EXCEPT ![t] =
                      [op |-> op, pc |-> step.pc, sess |-> on,
                       log |-> Append(log, [req |-> step.req, on |-> on,
                                            resp |-> Pending]),
                       pre |-> pre, data |-> step.data, now |-> now]]
                /\ ev' = StepEv
           ELSE /\ tasks' = [tasks EXCEPT ![t] = IdleCaller]
                /\ ev' = [kind |-> "done", op |-> op, cls |-> step.cls,
                          text |-> step.text, ret |-> step.ret, log |-> log,
                          pre |-> pre, data |-> step.data, now |-> now]

CallData(t, op, step) == ApplyData(t, op, None, <<>>, Snapshot, NoDate, step)

ResumeData(t, r, now, step) ==
    ApplyData(t, tasks[t].op, tasks[t].sess, Answered(tasks[t].log, r),
              tasks[t].pre, now, step)

\* what the coroutine `op` does with a step of the authenticate it awaits
InAuthenticate(op, step) ==
    IF op = "validate_credentials"
    THEN WithData(validate_credentials_in_authenticate(step), DominionEnergyData)
    ELSE IF op = "async_step_user"
    THEN WithData(async_step_user_in_validate(
                      validate_credentials_in_authenticate(step)),
                  DominionEnergyData)
    ELSE async_update_data_in_authenticate(step)

FetchInit ==
    /\ session \in {None, ExternalSession}
    /\ own_session = FALSE
    /\ token = None
    /\ created = 0
    /\ closed = {}
    /\ tasks = [t \in Tasks |-> IdleCaller]
    /\ ev = StepEv

CallGetAllData(t) ==
    /\ CanCall(t)
    /\ CallData(t, "get_all_data", get_all_data_start(token))

CallValidateCredentials(t) ==
    /\ CanCall(t)
    /\ CallData(t, "validate_credentials",
                InAuthenticate("validate_credentials", authenticate_start(token)))

CallAsyncUpdateData(t) ==
    /\ CanCall(t)
    /\ CallData(t, "_async_update_data", async_update_data_start(token))

\* The user step of the config flow.  validate_input builds a client of its
\* own on the shared session of Home Assistant: the step runs on a client
\* as the constructor leaves it.
CallStepUser(t) ==
    /\ CanCall(t)
    /\ token = None /\ session = ExternalSession /\ ~own_session
    /\ \E user_input \in {NoneStr, AccountNumber}, configured \in BOOLEAN :
          CallData(t, "async_step_user",
                   WithData(async_step_user_start(token, user_input, configured),
                            DominionEnergyData))

LoginResp(t) ==
    /\ tasks[t].pc = "auth_login"
    /\ \E r \in LoginOutcomes :
          ResumeData(t, r, NoDate,
                     InAuthenticate(tasks[t].op, authenticate_after_login(token, r)))

TokenResp(t) ==
    /\ tasks[t].pc = "auth_token"
    /\ \E r \in TokenOutcomes :
          ResumeData(t, r, NoDate,
                     InAuthenticate(tasks[t].op, authenticate_after_token(token, r)))

AuthnResp(t) ==
    /\ tasks[t].pc = "auth_authn"
    /\ \E r \in TokenOutcomes :
          ResumeData(t, r, NoDate,
                     InAuthenticate(tasks[t].op, authenticate_after_authn(token, r)))

\* the bill forecast answers
ForecastResp(t) ==
    /\ tasks[t].pc = "forecast"
    /\ \E r \in ForecastOutcomes(tasks[t].op), now \in Nows :
          LET step == api_request_after(token, r)
              data == tasks[t].data
          IN  ResumeData(t, r, now,
                CASE tasks[t].op = "get_all_data" ->
                         get_all_data_after_forecast(data, step, now)
                  [] tasks[t].op = "_async_update_data" ->
                         async_update_data_in_get_all_data(
                             get_all_data_after_forecast(data, step, now))
                  [] tasks[t].op = "validate_credentials" ->
                         WithData(validate_credentials_in_forecast(step), data)
                  [] tasks[t].op = "async_step_user" ->
                         WithData(async_step_user_in_validate(
                                      validate_credentials_in_forecast(step)),
                                  data))

\* the usage history answers
UsageResp(t) ==
    /\ tasks[t].pc = "usage"
    /\ \E r \in UsageOutcomes(tasks[t].op) :
          LET step == get_all_data_after_usage(tasks[t].data,
                                               api_request_after(token, r))
          IN  ResumeData(t, r, tasks[t].now,
                IF tasks[t].op = "_async_update_data"
                THEN async_update_data_in_get_all_data(step) ELSE step)

\* the bill history answers
BillsResp(t) ==
    /\ tasks[t].pc = "bills"
    /\ \E r \in BillsOutcomes(tasks[t].op) :
          LET step == get_all_data_after_bills(tasks[t].data,
                                               api_request_after(token, r))
          IN  ResumeData(t, r, tasks[t].now,
                IF tasks[t].op = "_async_update_data"
                THEN async_update_data_in_get_all_data(step) ELSE step)

FetchNext ==
    \E t \in Tasks :
        \/ CallGetAllData(t)
        \/ CallValidateCredentials(t)
        \/ CallAsyncUpdateData(t)
        \/ CallStepUser(t)
        \/ LoginResp(t)
        \/ TokenResp(t)
        \/ AuthnResp(t)
        \/ ForecastResp(t)
        \/ UsageResp(t)
        \/ BillsResp(t)

FetchSpec == FetchInit /\ [][FetchNext]_vars

-----------------------------------------------------------------------------
(* Vocabulary of the properties *)

ReadOps == {"get_bill_forecast", "get_usage_history", "get_bill_history"}
RequestOps == ReadOps \cup {"_api_request"}

\* the last step finished a call of one of `ops`
Done(ops) == ev.kind = "done" /\ ev.op \in ops

\* a token POST answered, and the answer held no token
NoTokenIn(r) == r.kind = "resp" /\ (r.status # HttpOk \/ ~Truthy(r.field))
\* a token POST answered with a token
TokenIn(r) == r.kind = "resp" /\ r.status = HttpOk /\ Truthy(r.field)

IsLoginGet(q) == q.method = "GET" /\ q.url = LOGIN_URL
IsGrantPost(q) == q.method = "POST" /\ q.url = TOKEN_URL
IsAuthnPost(q) == q.method = "POST" /\ q.url = LOGIN_SUBMIT_URL
IsDataGet(q) == q.method = "GET" /\ q.url \in Endpoints

\* the requests of an authenticate call, in flight (fin = FALSE) or finished
AuthOrder(log, fin) ==
    /\ Len(log) <= 3
    /\ Len(log) >= 1 => IsLoginGet(log[1].req)
    /\ Len(log) >= 2 => IsGrantPost(log[2].req)
    /\ Len(log) >= 3 => IsAuthnPost(log[3].req) /\ NoTokenIn(log[2].resp)
    /\ (Len(log) >= 2 /\ TokenIn(log[2].resp)) => (fin /\ Len(log) = 2)

\* C1: authenticate issues login-page GET, password-grant POST, session-token
\* POST in that order; the session-token POST only after a password-grant
\* POST that yielded no token; a successful password grant ends the call with
\* no further request.
C1_AuthRequestOrder ==
    /\ \A t \in Tasks :
          tasks[t].op = "authenticate" => AuthOrder(tasks[t].log, FALSE)
    /\ Done({"authenticate"}) => AuthOrder(ev.log, TRUE)

\* an authenticate call went through all three requests and succeeded on the last
C1_Witness ==
    /\ Done({"authenticate"})
    /\ Len(ev.log) = 3
    /\ NoTokenIn(ev.log[2].resp)
    /\ TokenIn(ev.log[3].resp)
    /\ ev.cls = "ok"

\* C2: the stored token is absent or of the form 'Bearer <t>', and so is the
\* Authorization header of every data request.
C2_TokenIsBearer ==
    /\ Truthy(token) => StartsWith(token, BearerPrefix)
    /\ \A t \in Tasks : \A i \in 1..Len(tasks[t].log) :
          IsDataGet(tasks[t].log[i].req)
              => StartsWith(tasks[t].log[i].req.auth, BearerPrefix)

\* C3: the token is absent until an authenticate or set_token succeeds, and
\* a call that starts with a token stored never ends with none.
C3_TokenNeverLost ==
    ev.kind = "done" =>
        /\ Truthy(ev.pre.token) => Truthy(token)
        /\ (~Truthy(ev.pre.token) /\ Truthy(token))
              => (ev.op \in {"authenticate", "set_token"} /\ ev.cls = "ok")

\* C4: authenticate ends in success with a token stored or in AuthError; a
\* non-200 login page raises AuthError before any POST; two strategies
\* without a token raise AuthError; a transport failure in any of the three
\* requests raises AuthError.
C4_AuthOutcome ==
    Done({"authenticate"}) =>
        /\ \/ ev.cls = "ok" /\ Truthy(token)
           \/ ev.cls = "DominionEnergyAuthError"
        /\ (ev.log[1].resp.kind = "resp" /\ ev.log[1].resp.status # HttpOk)
              => (ev.cls = "DominionEnergyAuthError" /\ Len(ev.log) = 1)
        /\ (Len(ev.log) = 3 /\ NoTokenIn(ev.log[3].resp))
              => ev.cls = "DominionEnergyAuthError"
        /\ (\E i \in 1..Len(ev.log) : ev.log[i].resp = TransportError)
              => ev.cls = "DominionEnergyAuthError"

\* the third request of an authenticate call failed at the transport level
C4_Witness ==
    /\ Done({"authenticate"})
    /\ Len(ev.log) = 3
    /\ ev.log[3].resp = TransportError
    /\ ev.cls = "DominionEnergyAuthError"

\* C5: for x without the prefix, set_token(x) and set_token('Bearer ' + x)
\* both store 'Bearer ' + x; set_token of the stored result stores it again
\* unchanged; set_token issues no HTTP request.
C5_SetTokenNormalizes ==
    Done({"set_token"}) =>
        LET x == ev.arg.token
            rest == SubSeq(x, Len(BearerPrefix) + 1, Len(x))
        IN  /\ ~StartsWith(x, BearerPrefix) => token = WithBearer(x)
            /\ (StartsWith(x, BearerPrefix) /\ ~StartsWith(rest, BearerPrefix))
                  => token = WithBearer(rest)
            /\ set_token(token) = token
            /\ x = ev.pre.token /\ StartsWith(x, BearerPrefix) => token = ev.pre.token
            /\ ev.log = <<>>
            /\ session = ev.pre.session /\ created = ev.pre.created

\* the token stored by one set_token was injected again
C5_Witness ==
    /\ Done({"set_token"})
    /\ ev.arg.token = WithBearer(<<"a">>)
    /\ ev.pre.token = WithBearer(<<"a">>)
    /\ token = WithBearer(<<"a">>)

\* the outcome of the one GET of a finished request
DataResp == ev.log[1].resp

\* a request finished with an error raised after its GET was answered
RequestFailed == Done(RequestOps) /\ Len(ev.log) >= 1 /\ ev.cls # "ok"

\* C6: with no token, the three read operations and the request under them
\* raise ApiError 'not authenticated', issue no HTTP request and create no
\* session.
C6_NoTokenNoRequest ==
    /\ \A t \in Tasks : tasks[t].op \in RequestOps => Truthy(tasks[t].pre.token)
    /\ (Done(RequestOps) /\ ~Truthy(ev.pre.token)) =>
          /\ ev.cls = "DominionEnergyApiError"
          /\ ev.text = <<"Not authenticated - call authenticate() first">>
          /\ ev.log = <<>>
          /\ session = ev.pre.session
          /\ own_session = ev.pre.own_session
          /\ created = ev.pre.created

\* a read was called on a client with no token and no session
C6_Witness ==
    /\ Done(ReadOps)
    /\ ~Truthy(ev.pre.token)
    /\ ev.pre.session = None
    /\ ev.cls = "DominionEnergyApiError"

\* C7: on every data endpoint a 401 raises AuthError; any other non-200
\* status raises an ApiError that is no AuthError; a transport failure raises
\* an ApiError that is no AuthError.
C7_ErrorClasses ==
    (Done(RequestOps) /\ Len(ev.log) >= 1) =>
        /\ (DataResp.kind = "resp" /\ DataResp.status = HttpUnauthorized)
              => IsAuthError(ev.cls)
        /\ (DataResp.kind = "resp" /\ DataResp.status \notin {HttpOk, HttpUnauthorized})
              => (IsApiError(ev.cls) /\ ~IsAuthError(ev.cls))
        /\ DataResp = TransportError
              => (IsApiError(ev.cls) /\ ~IsAuthError(ev.cls))

\* the bill-history endpoint answered 401
C7_Witness ==
    /\ Done({"get_bill_history"})
    /\ Len(ev.log) = 1
    /\ DataResp.kind = "resp"
    /\ DataResp.status = HttpUnauthorized
    /\ IsAuthError(ev.cls)

\* C8, as claimed: a failed data request has issued exactly one GET and
\* leaves the stored token and the session handle as they were at the call.
C8_FailureLeavesSessionAsAtCall ==
    RequestFailed =>
        /\ Len(ev.log) = 1
        /\ IsDataGet(ev.log[1].req)
        /\ token = ev.pre.token
        /\ session = ev.pre.session

\* C8, amended: a failed data request has issued exactly one GET, leaves the
\* stored token unchanged and still holds the session the GET was issued on:
\* the session held at the call, or, when none was held, the one session the
\* request created before its GET.
C8_FailureKeepsTokenAndSession ==
    RequestFailed =>
        /\ Len(ev.log) = 1
        /\ IsDataGet(ev.log[1].req)
        /\ token = ev.pre.token
        /\ session = ev.log[1].on
        /\ session \notin closed
        /\ ev.pre.session # None
              => (session = ev.pre.session /\ created = ev.pre.created
                    /\ own_session = ev.pre.own_session)
        /\ ev.pre.session = None
              => (session = OwnSession(ev.pre.created + 1) /\ own_session
                    /\ created = ev.pre.created + 1)

\* a request answered 401 on a client that held no session at the call
C8_Witness ==
    /\ RequestFailed
    /\ ev.pre.session = None
    /\ DataResp.kind = "resp"
    /\ DataResp.status = HttpUnauthorized

\* C9: on HTTP 200, a status.code that is present and not 200 raises ApiError
\* with the embedded message; an absent code or 200 returns the payload.
C9_EmbeddedStatus ==
    (Done(RequestOps) /\ Len(ev.log) >= 1 /\ DataResp.kind = "resp"
       /\ DataResp.status = HttpOk) =>
        LET body == DataResp.body
            success == body.code.t = "none" \/ IntOf(body.code) = HttpOk
        IN  /\ ~success => /\ ev.cls = "DominionEnergyApiError"
                           /\ ev.text = <<"API error: ", EmbeddedMessage(body)>>
            /\ success => (ev.cls = "ok" /\ ev.ret = RetJson(body))

\* C10: the query sent has accountNumber = the client's account number and
\* actionCode = '4' whatever the caller passed, and every other caller key
\* with the caller's value.
C10_ParamsMerge ==
    \A t \in Tasks :
        (tasks[t].op = "_api_request" /\ Len(tasks[t].log) >= 1) =>
            LET p == tasks[t].arg.params
                q == tasks[t].log[1].req.params
            IN  /\ q["accountNumber"] = AccountNumber
                /\ q["actionCode"] = ACTION_CODE
                /\ \A k \in DOMAIN p \ {"accountNumber", "actionCode"} :
                      k \in DOMAIN q /\ q[k] = p[k]

-----------------------------------------------------------------------------
(* Vocabulary of the properties of the composite operations (FetchSpec) *)

\* the last step finished a call of `op`
DoneOp(op) == ev.kind = "done" /\ ev.op = op

\* the answers the finished call got to its data GETs, in order
DataAnswers == SelectSeq(ev.log, LAMBDA e : IsDataGet(e.req))
\* the endpoints it asked, in order
AskedEndpoints == [i \in 1..Len(DataAnswers) |-> DataAnswers[i].req.url]

\* a data GET answered 200 with a success envelope
Success(r) == r.kind = "resp" /\ r.status = HttpOk /\ r.body.code = IntCode(HttpOk)
\* a data GET answered 401
Rejected(r) == r.kind = "resp" /\ r.status = HttpUnauthorized

SomeRejected == \E i \in 1..Len(DataAnswers) : Rejected(DataAnswers[i].resp)

FetchOrder == <<BILL_FORECAST_ENDPOINT, USAGE_HISTORY_ENDPOINT, BILL_HISTORY_ENDPOINT>>

\* the fields get_all_data takes from the bill forecast, all unset
ForecastFieldsUnset(d) ==
    /\ d.monthly_usage = Null /\ d.grid_consumption = Null
    /\ d.current_bill = Null /\ d.grid_return = Null /\ d.daily_cost = Null
    /\ d.billing_period_start = NoDate /\ d.billing_period_end = NoDate

\* the DominionEnergyData built from the answers that succeeded alone
FromSuccessful(answers, now) ==
    LET d1 == IF Success(answers[1].resp)
              THEN get_all_data_forecast(DominionEnergyData,
                                         answers[1].resp.body.data, now)
              ELSE DominionEnergyData
        d2 == IF Success(answers[2].resp)
              THEN get_all_data_usage(d1, answers[2].resp.body.data) ELSE d1
    IN  IF Success(answers[3].resp)
        THEN get_all_data_bills(d2, answers[3].resp.body.data) ELSE d2

-----------------------------------------------------------------------------
(* C11: when get_all_data runs with a token and every endpoint that fails
   fails with a non-auth error (transport error, a status other than 200 and
   401, an embedded error status), it asks the three endpoints in the order
   bill forecast, usage history, bill history, it does not raise, and the
   DominionEnergyData it returns holds what the endpoints that succeeded
   gave and leaves unset what only a failed endpoint gives. *)
C11_FailuresIsolated ==
    (DoneOp("get_all_data") /\ Truthy(ev.pre.token) /\ ~SomeRejected) =>
        /\ ev.cls = "ok" /\ ev.ret = RetData
        /\ AskedEndpoints = FetchOrder
        /\ Len(ev.log) = 3
        /\ ev.data = FromSuccessful(DataAnswers, ev.now)
        /\ ~Success(DataAnswers[1].resp) => ForecastFieldsUnset(ev.data)
        /\ ~Success(DataAnswers[2].resp) =>
              ev.data.daily_usage = NoList /\ ev.data.daily_return = NoList
        /\ (~Success(DataAnswers[1].resp) /\ ~Success(DataAnswers[3].resp)) =>
              ev.data.current_rate = Null

\* the usage history answered 500 between a forecast and a bill history that
\* succeeded
C11_Witness ==
    /\ DoneOp("get_all_data") /\ Len(DataAnswers) = 3
    /\ DataAnswers[1].resp = Ok(TypicalForecast)
    /\ DataAnswers[2].resp = Response(500, None, NoBody)
    /\ Success(DataAnswers[3].resp)
    /\ ev.data.monthly_usage = Num(50000) /\ ev.data.current_bill = Num(7500)
    /\ ev.data.daily_usage = NoList /\ ev.data.daily_return = NoList

(* C12: when a data endpoint answers 401 during get_all_data, get_all_data
   raises DominionEnergyAuthError to its caller instead of returning a
   DominionEnergyData. *)
C12_AuthErrorNotHidden ==
    (DoneOp("get_all_data") /\ SomeRejected) =>
        IsAuthError(ev.cls) /\ ev.ret # RetData

\* the answers the finished call got to its login requests, in order
LoginAnswers == SelectSeq(ev.log, LAMBDA e : ~IsDataGet(e.req))

\* the login sequence of the finished call ended with a token POST that
\* answered with a token
LoggedIn == LoginAnswers # <<>> /\ TokenIn(LoginAnswers[Len(LoginAnswers)].resp)

(* C13: validate_credentials runs authenticate and then, only when it
   succeeded, exactly one bill-forecast read; it returns False exactly when
   authenticate failed or the forecast read answered 401, True otherwise
   (the read succeeded or failed with a non-auth error), and it raises
   neither DominionEnergyAuthError nor DominionEnergyApiError. *)
C13_ValidateCredentials ==
    DoneOp("validate_credentials") =>
        /\ LoginAnswers # <<>> /\ AuthOrder(LoginAnswers, TRUE)
        /\ ev.log = LoginAnswers \o DataAnswers
        /\ IF LoggedIn THEN AskedEndpoints = <<BILL_FORECAST_ENDPOINT>>
                       ELSE DataAnswers = <<>>
        /\ ev.cls = "ok" /\ ev.ret \in {RetTrue, RetFalse}
        /\ ev.ret = RetFalse <=> (~LoggedIn \/ Rejected(DataAnswers[1].resp))

\* the login succeeded, the forecast read answered 500, the result is True
C13_Witness ==
    /\ DoneOp("validate_credentials") /\ LoggedIn
    /\ Len(DataAnswers) = 1
    /\ DataAnswers[1].resp = Response(500, None, NoBody)
    /\ ev.ret = RetTrue

-----------------------------------------------------------------------------
(* Properties of the DominionEnergyData that get_all_data builds (FetchSpec) *)

\* get_all_data finished after three answers, the bill forecast's a success
FetchedForecast ==
    /\ DoneOp("get_all_data") /\ Len(DataAnswers) = 3
    /\ Success(DataAnswers[1].resp)

\* the `data` members of the three answers
ForecastMembers == DataAnswers[1].resp.body.data
UsageMembers == DataAnswers[2].resp.body.data
BillsMembers == DataAnswers[3].resp.body.data

(* C15: after a successful bill forecast, grid_return is the net-metering
   export member when it is present and not null; otherwise the generic
   grid-return member when that is present; otherwise 0.0. *)
C15_GridReturnPrecedence ==
    FetchedForecast =>
        LET net == ForecastMembers.netMeteringExportKwh
            grid == ForecastMembers.gridReturnKwh
        IN  /\ net.t = "num" => ev.data.grid_return = net
            /\ (net.t # "num" /\ grid.t = "num") => ev.data.grid_return = grid
            /\ (net.t = "absent" /\ grid.t = "absent")
                  => ev.data.grid_return = Num(0)

\* the bill the forecast gives: currentBillAmount, or projectedBillAmount
\* when that is missing
ForecastBill(fd) ==
    IF fd.currentBillAmount.t = "num" THEN fd.currentBillAmount
    ELSE IF fd.projectedBillAmount.t = "num" THEN fd.projectedBillAmount
    ELSE Null

(* C16: when the bill forecast has been applied, current_rate is set from it
   exactly when the bill (after the projected-bill fallback) and the usage
   are both present and the usage is positive, a bill of 0 included, and it
   is then bill / usage rounded to 4 decimals; otherwise the forecast sets no
   rate. *)
C16_ForecastRate ==
    \A t \in DOMAIN tasks :
        (/\ tasks[t].op = "get_all_data" /\ tasks[t].pc = "usage"
         /\ Success(tasks[t].log[1].resp)) =>
            LET fd == tasks[t].log[1].resp.body.data
                bill == ForecastBill(fd)
                usage == fd.currentUsageKwh
            IN  IF bill.t = "num" /\ usage.t = "num" /\ usage.n > 0
                THEN tasks[t].data.current_rate
                         = Num(RoundDiv(bill.n * 10000, usage.n))
                ELSE tasks[t].data.current_rate = Null

\* the rate the bill forecast of the finished call derived (Null: none)
ForecastDerivedRate ==
    IF Success(DataAnswers[1].resp)
    THEN get_all_data_forecast(DominionEnergyData, ForecastMembers, ev.now).current_rate
    ELSE Null

(* C17: the bill history changes current_rate only when the forecast step
   derived none: a rate the forecast derived (a rate of 0 included) is the
   one returned; otherwise, when the first bill has totalAmount and a
   positive totalUsageKwh, current_rate is their quotient rounded to 4
   decimals (a totalAmount of 0 may also leave it unset); otherwise
   current_rate stays unset. *)
C17_BillHistoryBackfill ==
    (DoneOp("get_all_data") /\ Len(DataAnswers) = 3) =>
        LET bills == BillsMembers.bills
            usable == /\ Success(DataAnswers[3].resp)
                      /\ bills.t = "list" /\ bills.l # <<>>
                      /\ bills.l[1].totalAmount.t = "num"
                      /\ bills.l[1].totalUsageKwh.t = "num"
                      /\ bills.l[1].totalUsageKwh.n > 0
            quotient == Num(RoundDiv(bills.l[1].totalAmount.n * 10000,
                                     bills.l[1].totalUsageKwh.n))
        IN  IF ForecastDerivedRate # Null
            THEN ev.data.current_rate = ForecastDerivedRate
            ELSE IF usable /\ bills.l[1].totalAmount.n # 0
            THEN ev.data.current_rate = quotient
            ELSE IF usable
            THEN ev.data.current_rate \in {quotient, Null}
            ELSE ev.data.current_rate = Null

\* the three sub-fetch results of the finished call, as updates of `data`
ApplyResult(k, d) ==
    CASE k = "forecast" -> get_all_data_forecast(d, ForecastMembers, ev.now)
      [] k = "usage" -> get_all_data_usage(d, UsageMembers)
      [] k = "bills" -> get_all_data_bills(d, BillsMembers)

\* the six orders of the three sub-fetches
Orders ==
    {o \in [1..3 -> {"forecast", "usage", "bills"}] :
        \A i, j \in 1..3 : i # j => o[i] # o[j]}

InOrder(o) ==
    ApplyResult(o[3], ApplyResult(o[2], ApplyResult(o[1], DominionEnergyData)))

(* C18: for three successful answers, applying the three sub-fetch results
   in any of the six orders gives the DominionEnergyData that get_all_data
   returns (no field being written by more than one sub-fetch). *)
C18_OrderIndependent ==
    (FetchedForecast /\ Success(DataAnswers[2].resp) /\ Success(DataAnswers[3].resp))
        => \A o \in Orders : InOrder(o) = ev.data

\* the forecast payload of the finished call without its malformed dates
WithoutMalformed(fd) ==
    [fd EXCEPT !.billingPeriodStartDate = IF @ \in MalformedDates THEN AbsentStr ELSE @,
               !.billingPeriodEndDate = IF @ \in MalformedDates THEN AbsentStr ELSE @]

(* C22: when the billing start or the billing end of a successful forecast
   is a string that is not an ISO-8601 timestamp, get_all_data does not
   raise, leaves that date unset, and returns in every other field what it
   returns for the same answers with the malformed date absent. *)
C22_MalformedDate ==
    (/\ FetchedForecast
     /\ \/ ForecastMembers.billingPeriodStartDate \in MalformedDates
        \/ ForecastMembers.billingPeriodEndDate \in MalformedDates) =>
        /\ ev.cls = "ok" /\ ev.ret = RetData
        /\ ForecastMembers.billingPeriodStartDate \in MalformedDates
              => ev.data.billing_period_start = NoDate
        /\ ForecastMembers.billingPeriodEndDate \in MalformedDates
              => ev.data.billing_period_end = NoDate
        /\ \A v \in StartDates \ (MalformedDates \cup {AbsentStr}) :
              ForecastMembers.billingPeriodStartDate = v
                  => ev.data.billing_period_start.t = "dt"
        /\ \A v \in EndDates \ (MalformedDates \cup {AbsentStr}) :
              ForecastMembers.billingPeriodEndDate = v
                  => ev.data.billing_period_end.t = "dt"
        /\ ev.data.monthly_usage = ForecastMembers.currentUsageKwh
        /\ ev.data.grid_consumption = ForecastMembers.currentUsageKwh
        /\ ev.data.current_bill = ForecastMembers.currentBillAmount
        /\ (ev.data.current_bill.n # 0 /\ ev.data.monthly_usage.n > 0)
              => ev.data.current_rate
                     = Num(RoundDiv(ev.data.current_bill.n * 10000,
                                    ev.data.monthly_usage.n))
        /\ (/\ ForecastMembers.netMeteringExportKwh = Absent
            /\ ForecastMembers.gridReturnKwh = Absent)
              => ev.data.grid_return = Num(0)
        /\ ev.data = FromSuccessful(
               [DataAnswers EXCEPT ![1].resp.body.data = WithoutMalformed(@)],
               ev.now)

\* a forecast with a malformed billing start and a well-formed billing end
C22_Witness ==
    /\ FetchedForecast
    /\ ForecastMembers.billingPeriodStartDate = Malformed
    /\ ForecastMembers.billingPeriodEndDate = BillingEnd
    /\ ev.cls = "ok"
    /\ ev.data.billing_period_start = NoDate
    /\ ev.data.billing_period_end = DateTime(Ordinal(2024, 1, 31), 0, TRUE)
    /\ ev.data.monthly_usage = Num(50000) /\ ev.data.current_bill = Num(7500)
    /\ ev.data.current_rate = Num(1500) /\ ev.data.grid_return = Num(0)
    /\ ev.data.daily_cost = Null

\* whole days from the billing start of the finished call to its `now`
WholeDays ==
    (ev.now.day - ev.data.billing_period_start.day)
        - (IF ev.now.sec < ev.data.billing_period_start.sec THEN 1 ELSE 0)

(* C23: after a successful forecast, daily_cost is set exactly when the
   billing start is known, the bill is known (a bill of 0 included) and the
   whole days from the billing start to now are more than 0; it is then the
   bill divided by those days, rounded to 2 decimals. *)
C23_DailyCost ==
    FetchedForecast =>
        IF /\ ev.data.billing_period_start.t = "dt"
           /\ ev.data.current_bill.t = "num"
           /\ WholeDays > 0
        THEN ev.data.daily_cost = Num(RoundDiv(ev.data.current_bill.n, WholeDays))
        ELSE ev.data.daily_cost = Null

\* datetime a is not later than datetime b (both read as UTC wall-clock)
NotAfter(a, b) == a.day < b.day \/ (a.day = b.day /\ a.sec <= b.sec)

(* C24: in every DominionEnergyData that get_all_data returns, the billing
   period start is not later than the billing period end when both are
   set. *)
C24_BillingPeriodOrdered ==
    (/\ DoneOp("get_all_data") /\ ev.ret = RetData
     /\ ev.data.billing_period_start.t = "dt"
     /\ ev.data.billing_period_end.t = "dt")
        => NotAfter(ev.data.billing_period_start, ev.data.billing_period_end)

(* C25: get_all_data on a client that holds no token issues no request and
   creates no session, does not raise, and returns a DominionEnergyData with
   every field unset, grid_return included. *)
C25_NoTokenEmptyData ==
    (DoneOp("get_all_data") /\ ~Truthy(ev.pre.token)) =>
        /\ ev.log = <<>>
        /\ created = ev.pre.created /\ session = ev.pre.session
        /\ ev.cls = "ok" /\ ev.ret = RetData
        /\ ev.data = DominionEnergyData
        /\ ev.data.grid_return = Null /\ ev.data.monthly_usage = Null
        /\ ev.data.billing_period_start = NoDate /\ ev.data.daily_usage = NoList
        /\ token = ev.pre.token

\* get_all_data returned on a client that never logged in
C25_Witness ==
    /\ DoneOp("get_all_data") /\ ev.pre.token = None
    /\ ev.log = <<>> /\ ev.ret = RetData /\ ev.data = DominionEnergyData

-----------------------------------------------------------------------------
(* Properties of the coordinator's update cycle (FetchSpec) *)

(* C19: an update cycle in which authenticate fails, or in which a data
   endpoint answers 401, ends with ConfigEntryAuthFailed and returns no
   DominionEnergyData; no DominionEnergyApiError leaves the cycle as
   itself. *)
C19_UpdateErrors ==
    DoneOp("_async_update_data") =>
        /\ ev.cls \in {"ok", "ConfigEntryAuthFailed", "UpdateFailed"}
        /\ (~LoggedIn \/ SomeRejected)
              => (ev.cls = "ConfigEntryAuthFailed" /\ ev.ret # RetData)

(* C20: an update cycle that starts with a token stored issues no login
   request (login-page GET, token POST) before its data fetch; a cycle that
   starts without a token runs the login sequence first. *)
C20_LoginOnlyWithoutToken ==
    DoneOp("_async_update_data") =>
        IF Truthy(ev.pre.token)
        THEN LoginAnswers = <<>>
        ELSE LoginAnswers # <<>> /\ IsLoginGet(ev.log[1].req)

-----------------------------------------------------------------------------
(* Properties of the config flow's user step (FetchSpec) *)

\* a request of the finished call raised aiohttp.ClientError
TransportFailed == \E i \in 1..Len(ev.log) : ev.log[i].resp.kind = "error"

(* C21: the user step creates an entry only when the login of the submitted
   credentials gave a token and the forecast read was not answered 401; when
   the provider rejected the credentials (an answered login without a token,
   or a 401 on the forecast read) it shows the form with invalid_auth; when
   a request of the login or the forecast read failed at the connection, it
   shows the form with cannot_connect. *)
C21_UserStep ==
    DoneOp("async_step_user") =>
        /\ ev.ret = RetEntry =>
              (LoggedIn /\ Len(DataAnswers) = 1 /\ ~Rejected(DataAnswers[1].resp))
        /\ (ev.log # <<>> /\ ~TransportFailed
              /\ (~LoggedIn \/ Rejected(DataAnswers[1].resp)))
              => ev.ret = RetForm("invalid_auth")
        /\ TransportFailed => ev.ret = RetForm("cannot_connect")

-----------------------------------------------------------------------------
(* Properties of the session under overlapping callers (ConcSpec) *)

\* the sessions the client created that are still open
OpenOwnSessions == {n \in 1..created : OwnSession(n) \notin closed}

\* the session a call in flight uses: the one held when it started, or, when
\* none was held, the one it created then
UsesHeldOrNew(c) ==
    IF c.pre.session = None
    THEN c.sess = OwnSession(c.pre.created + 1)
    ELSE c.sess = c.pre.session

(* C14: with the steps of authenticate, of the data requests and of close
   interleaved at their awaits: a session supplied at construction is never
   closed by the client; a session is created only by an operation that
   needs one and finds none held; at most one session the client created is
   open at any time; and a close that finds a self-created session held
   closes it. *)
C14_SessionOwnership ==
    /\ ExternalSession \notin closed
    /\ \A t \in DOMAIN tasks :
          tasks[t].op \in {"authenticate", "get_bill_forecast"}
              => UsesHeldOrNew(tasks[t])
    /\ Cardinality(OpenOwnSessions) <= 1
    /\ (DoneOp("close") /\ ev.pre.own_session /\ ev.pre.session # None)
          => ev.pre.session \in closed
=============================================================================
